---- MODULE Spec2Model ----
(***************************************************************************)
(* The generation loop of candle-examples/examples/quantized/main.rs:      *)
(* prompt acquisition, context-window truncation, prefill, the decode      *)
(* loop, and the per-mode end of turn (One / Interactive / Chat).          *)
(***************************************************************************)
EXTENDS Integers, Sequences, FiniteSets, TLC

\* ------------------------------------------------------------------ bounds
\* model::MAX_SEQ_LEN of quantized_llama, scaled down (the real value is 4096)
MAX_SEQ_LEN == 13
\* longest token sequence tokenizer.encode returns for one prompt
MaxPromptLen == 7
\* largest --sample-len
MaxSampleLen == 3
\* number of turns of the loop that are explored
MaxTurns == 2
\* largest --repeat-last-n
MaxRepeatLastN == 1
\* longest text between "<0x" and ">" of the token texts given to print_token
MaxBodyLen == 3

\* ------------------------------------------------------- program constants
\* the literal 10 of `MAX_SEQ_LEN - 10`
Margin == 10
\* the literal token id the prefill block and the decode loop evaluate to
FixedToken == 15043
\* stand-in for a repeat penalty different from 1.0
Penalty == 2
\* "no entry" for the "</s>" lookup in the vocabulary
NoEos == -1

\* ------------------------------------------------------------------ helpers
Range(s) == {s[i] : i \in 1..Len(s)}

Last(s) == s[Len(s)]

\* usize::saturating_sub
SatSub(a, b) == IF a >= b THEN a - b ELSE 0

\* token ids the model's vocabulary holds
Vocab == (1..(MaxPromptLen + 1)) \cup {FixedToken}

\* what tokenizer.encode can return for one prompt line: a begin-of-sequence id
\* followed by further ids, of any length up to the bound
PromptIds == {[i \in 1..n |-> i] : n \in 0..MaxPromptLen}

\* the logit vectors model.forward can return
LogitsSet ==
    { [v \in Vocab |-> IF v = 1 THEN 4 ELSE IF v = FixedToken THEN 2 ELSE -2],
      [v \in Vocab |-> IF v = FixedToken THEN 4 ELSE IF v = 2 THEN 3 ELSE -2] }

\* logits.ones_like()
OnesLike(l) == [v \in DOMAIN l |-> 1]

\* index of the largest logit (the lowest index among equals)
ArgMax(l) ==
    CHOOSE v \in DOMAIN l :
        \A w \in DOMAIN l : l[v] > l[w] \/ (l[v] = l[w] /\ v <= w)

\* candle_transformers::utils::apply_repeat_penalty
ApplyRepeatPenalty(l, ctx) ==
    [v \in DOMAIN l |->
        IF v \in Range(ctx)
        THEN (IF l[v] >= 0 THEN l[v] \div Penalty ELSE l[v] * Penalty)
        ELSE l[v]]

\* ------------------------------------------------------------ pure pieces
\* let to_sample = args.sample_len.saturating_sub(1);
ToSampleNoSub(n) == n
ToSample(n) == SatSub(n, 1)

\* [&pre_prompt_tokens, tokens.get_ids()].concat()
Concat(pre, ids) == pre \o ids

\* the context-window truncation of the concatenated prompt
TruncateFromBack(pt, to_sample) ==
    IF Len(pt) + to_sample > MAX_SEQ_LEN - Margin
    THEN LET to_remove == Len(pt) + to_sample + Margin - MAX_SEQ_LEN
         IN  SubSeq(pt, 1, Len(pt) - SatSub(Len(pt), to_remove))
    ELSE pt
Truncate(pt, to_sample) ==
    IF Len(pt) + to_sample > MAX_SEQ_LEN - Margin
    THEN LET to_remove == Len(pt) + to_sample + Margin - MAX_SEQ_LEN
         IN  SubSeq(pt, SatSub(Len(pt), to_remove) + 1, Len(pt))
    ELSE pt

\* let start_at = all_tokens.len().saturating_sub(args.repeat_last_n);
\* &all_tokens[start_at..]
PenaltyWindowWhole(all, last_n) == all
PenaltyWindow(all, last_n) == SubSeq(all, SatSub(Len(all), last_n) + 1, Len(all))

\* let next_token = 15043; the token of a decode iteration (line 403)
DecodeTokenOther == FixedToken - 1
DecodeToken == FixedToken

\* model.forward(&input, prompt_tokens.len() + index): the position of a decode
\* iteration
DecodePosIndexOnly(plen, idx) == idx
DecodePos(plen, idx) == plen + idx

\* all_tokens.push(next_token) of line 404, which comes before the comparison
\* with eos_token of line 406
PushUnlessEos(all, tok, eos) == IF tok = eos THEN all ELSE Append(all, tok)
PushGenerated(all, tok, eos) == Append(all, tok)

\* the value of pre_prompt_tokens after the `match prompt` that ends a turn
NextCarryOverAllModes(m, pre, pt, all) == pt \o all
NextCarryOverGeneratedOnly(m, pre, pt, all) == IF m = "Chat" THEN pre \o all ELSE pre
NextCarryOver(m, pre, pt, all) == IF m = "Chat" THEN pt \o all ELSE pre

\* where control goes after the `match prompt` that ends a turn
AfterTurnInteractiveBreaks(m) == IF m = "Chat" THEN "AwaitingPrompt" ELSE "Halted"
AfterTurn(m) == IF m = "One" THEN "Halted" ELSE "AwaitingPrompt"

\* ----------------------------------------------------- model selection
\* enum Which, by its command-line names
Which ==
    {"7b", "13b", "70b", "7b-chat", "13b-chat", "70b-chat", "7b-code",
     "13b-code", "32b-code", "7b-mistral", "7b-mistral-instruct", "7b-zephyr"}

\* Which::is_mistral
IsMistral(w) == w \in {"7b-mistral", "7b-mistral-instruct", "7b-zephyr"}

\* let default_gqa = match args.which { ... }
DefaultGqaMistralOne(w) == IF w \in {"70b", "70b-chat"} THEN 8 ELSE 1
DefaultGqa(w) ==
    IF w \in {"7b", "13b", "7b-chat", "13b-chat", "7b-code", "13b-code",
              "32b-code"}
    THEN 1
    ELSE 8

\* --gqa: <<>> is None, <<n>> is Some(n)
GqaArgs == {<<>>, <<1>>, <<4>>, <<8>>}

\* model_path.extension(): "" stands for None
Extensions == {"gguf", "ggml", "bin", "safetensors", ""}

\* the `match model_path.extension()` of lines 266-314: the container format
\* read and the grouping factor given to ModelWeights::from_ggml (<<>> for
\* from_gguf, which takes none)
BuildModel(w, g, e) ==
    IF e = "gguf"
    THEN [format |-> "gguf", gqa |-> <<>>]
    ELSE [format |-> "ggml", gqa |-> IF g # <<>> THEN g ELSE <<DefaultGqa(w)>>]

NoModel == [format |-> "none", gqa |-> <<>>]

\* ---------------------------------------------------------- prompt text
\* a text is a sequence of Unicode code points
\* "My" for DEFAULT_PROMPT or the --prompt text
ArgPrompt == <<77, 121>>

\* the lines read_line can return: "hi\n", "hi\r\n", and "hi" at end of input
StdinLines == {<<104, 105, 10>>, <<104, 105, 13, 10>>, <<104, 105>>}

\* lines 334-339: drop one trailing '\n', and then one trailing '\r'
Chomp(l) ==
    IF l # <<>> /\ Last(l) = 10
    THEN LET m == SubSeq(l, 1, Len(l) - 1)
         IN  IF m # <<>> /\ Last(m) = 13 THEN SubSeq(m, 1, Len(m) - 1) ELSE m
    ELSE l

\* "[INST] " and " [/INST]"
InstOpen == <<91, 73, 78, 83, 84, 93, 32>>
InstClose == <<32, 91, 47, 73, 78, 83, 84, 93>>

\* format!("[INST] {prompt} [/INST]")
Template(p) == InstOpen \o p \o InstClose

\* lines 327-346: the text handed to tokenizer.encode
PromptStrChatOnly(m, w, l) ==
    IF m = "One" THEN l
    ELSE IF m = "Chat" /\ IsMistral(w) THEN Template(Chomp(l)) ELSE Chomp(l)
PromptStr(m, w, l) ==
    IF m = "One" THEN l
    ELSE IF IsMistral(w) THEN Template(Chomp(l)) ELSE Chomp(l)

\* ------------------------------------------------------------ print_token
\* code points: '<' '0' 'x' '>' '+' ' ' and the word-boundary marker U+2581
BytePrefix == <<60, 48, 120>>
ByteSuffix == <<62>>
PlusSign == 43
Space == 32
Marker == 9601

\* the characters token texts are made of: 1 4 8 F f g + and the marker
BodyChars == {49, 52, 56, 70, 102, 103, PlusSign, Marker}

BodiesOfLen(n) == [1..n -> BodyChars]

\* what tokenizer.id_to_token can return: <<>> is None, <<text>> is Some(text)
TokenTexts ==
    {<<>>} \cup
    { <<pre \o body \o suf>> :
        pre \in {BytePrefix, <<>>},
        body \in UNION {BodiesOfLen(n) : n \in 0..MaxBodyLen},
        suf \in {ByteSuffix, <<>>} }

\* text.replace('\u{2581}', " ")
ReplaceMarker(t) == [i \in 1..Len(t) |-> IF t[i] = Marker THEN Space ELSE t[i]]

\* char::to_digit(16): -1 stands for None
HexDigit(c) ==
    IF c >= 48 /\ c <= 57 THEN c - 48
    ELSE IF c >= 97 /\ c <= 102 THEN c - 87
    ELSE IF c >= 65 /\ c <= 70 THEN c - 55
    ELSE -1

\* the digit loop of u8::from_str_radix(_, 16), from the accumulator acc: -1
\* stands for Err (an invalid digit, or a value above u8::MAX)
RECURSIVE ParseDigits(_, _)
ParseDigits(d, acc) ==
    IF d = <<>> THEN acc
    ELSE IF HexDigit(Head(d)) = -1 THEN -1
    ELSE IF acc * 16 + HexDigit(Head(d)) > 255 THEN -1
    ELSE ParseDigits(Tail(d), acc * 16 + HexDigit(Head(d)))

\* u8::from_str_radix(t, 16): an optional '+', then at least one digit
FromStrRadix16(t) ==
    IF t = <<>> THEN -1
    ELSE IF Head(t) = PlusSign
         THEN (IF Tail(t) = <<>> THEN -1 ELSE ParseDigits(Tail(t), 0))
         ELSE ParseDigits(t, 0)

\* text.strip_prefix("<0x").and_then(strip_suffix('>')).and_then(from_str_radix)
AsciiOf(text) ==
    IF /\ Len(text) >= Len(BytePrefix) + Len(ByteSuffix)
       /\ SubSeq(text, 1, Len(BytePrefix)) = BytePrefix
       /\ text[Len(text)] = ByteSuffix[1]
    THEN FromStrRadix16(SubSeq(text, Len(BytePrefix) + 1, Len(text) - 1))
    ELSE -1

\* char::is_ascii
IsAsciiAnyByte(v) == v <= 255
IsAscii(v) == v <= 127

\* print_token: the code points written for id_to_token's result
PrintToken(tok) ==
    IF tok = <<>> THEN <<>>
    ELSE LET text == ReplaceMarker(tok[1])
             ascii == AsciiOf(text)
         IN  IF ascii = -1 THEN text
             ELSE IF IsAscii(ascii) THEN <<ascii>>
             ELSE <<>>

\* ----------------------------------------------------------------- errors
\* the `?` operator and unwrap: an error leaves main, whatever the position
OnErrorRetry(at) == at
OnError(at) == "Error"

\* ------------------------------------------------------------------- state
VARIABLES
    mode,              \* Prompt: "One", "Interactive" or "Chat"
    sample_len,        \* args.sample_len
    temperature,       \* "None" (args.temperature == 0.) or "Some"
    repeat_penalty,    \* 1 (args.repeat_penalty == 1.) or Penalty
    repeat_last_n,     \* args.repeat_last_n
    eos_id,            \* the vocabulary's id of "</s>", or NoEos
    pc,                \* position of main in the loop
    turn,              \* number of loop iterations started
    pre_prompt_tokens, \* the carry-over across turns
    input_tokens,      \* prompt_tokens of line 358, before truncation
    prompt_tokens,     \* prompt_tokens after truncation
    all_tokens,        \* tokens generated in the turn
    next_token,        \* the outer next_token
    index,             \* the decode loop's index
    logits_processor,  \* the LogitsProcessor: the turn that built it, draws made
    fwd_calls,         \* the model.forward calls of the turn: input and position
    fwd_logits,        \* what the last model.forward returned
    logits,            \* the local `logits` when the step's token is chosen
    penalty_ctx,       \* the slice given to apply_repeat_penalty in the last step
    emitted,           \* the ids handed to print_token in the turn
    which,             \* args.which
    gqa,               \* args.gqa
    ext,               \* the extension of the model path
    model,             \* the model built: container format and grouping factor
    prompt_str,        \* the text handed to tokenizer.encode in the turn
    err,               \* "none", or the kind of the error that ended main
    token_text,        \* print_token: tokenizer.id_to_token(next_token)
    stdout             \* print_token: what it printed

vars == <<mode, sample_len, temperature, repeat_penalty, repeat_last_n, eos_id,
          pc, turn, pre_prompt_tokens, input_tokens, prompt_tokens, all_tokens,
          next_token, index, logits_processor, fwd_calls, fwd_logits, logits,
          penalty_ctx, emitted, which, gqa, ext, model, prompt_str, err,
          token_text, stdout>>

config == <<mode, sample_len, temperature, repeat_penalty, repeat_last_n, eos_id,
            which, gqa, ext>>

emitter == <<token_text, stdout>>

NoLogits == [v \in Vocab |-> 0]

\* the loop's variables before its first iteration
LoopInit ==
    /\ turn = 0
    /\ pre_prompt_tokens = <<>>
    /\ input_tokens = <<>>
    /\ prompt_tokens = <<>>
    /\ all_tokens = <<>>
    /\ next_token = 0
    /\ index = 0
    /\ logits_processor = [born |-> 0, draws |-> 0]
    /\ fwd_calls = <<>>
    /\ fwd_logits = NoLogits
    /\ logits = NoLogits
    /\ penalty_ctx = <<>>
    /\ emitted = <<>>
    /\ prompt_str = <<>>
    /\ err = "none"

\* print_token not called
EmitterIdle ==
    /\ token_text = <<>>
    /\ stdout = <<>>

\* main on entering the loop (line 326) with the default model selection built,
\* for every sampling configuration and prompt mode
Init ==
    /\ mode \in {"One", "Interactive", "Chat"}
    /\ sample_len \in 0..MaxSampleLen
    /\ temperature \in {"None", "Some"}
    /\ repeat_penalty \in {1, Penalty}
    /\ repeat_last_n \in 0..MaxRepeatLastN
    /\ eos_id \in {2, FixedToken, NoEos}
    /\ which = "7b"
    /\ gqa = <<>>
    /\ ext = "bin"
    /\ model = BuildModel(which, gqa, ext)
    /\ pc = "AwaitingPrompt"
    /\ LoopInit
    /\ EmitterIdle

\* ----------------------------------------------------------------- actions
\* Lines 327-367: obtain the prompt, tokenize it, prepend the carry-over,
\* truncate to the context window, reset the turn's locals.
ReadPrompt(ids, line) ==
    /\ pc = "AwaitingPrompt"
    /\ turn < MaxTurns
    /\ line \in (IF mode = "One" THEN {ArgPrompt} ELSE StdinLines)
    /\ prompt_str' = PromptStr(mode, which, line)
    /\ turn' = turn + 1
    /\ input_tokens' = Concat(pre_prompt_tokens, ids)
    /\ prompt_tokens' = Truncate(input_tokens', ToSample(sample_len))
    /\ all_tokens' = <<>>
    /\ logits_processor' = [born |-> turn', draws |-> 0]
    /\ fwd_calls' = <<>>
    /\ emitted' = <<>>
    /\ penalty_ctx' = <<>>
    /\ index' = 0
    /\ pc' = "Prefilling"
    /\ UNCHANGED <<config, model, emitter, err, pre_prompt_tokens, next_token,
                   fwd_logits, logits>>

\* Lines 331-350: flush, read_line or tokenizer.encode returns an error.
PromptFail ==
    /\ pc = "AwaitingPrompt"
    /\ turn < MaxTurns
    /\ turn' = turn + 1
    /\ pc' = OnError(pc)
    /\ err' = "Tokenizer"
    /\ UNCHANGED <<config, model, emitter, prompt_str, pre_prompt_tokens,
                   input_tokens, prompt_tokens,
                   all_tokens, next_token, index, logits_processor, fwd_calls,
                   fwd_logits, logits, penalty_ctx, emitted>>

\* Lines 370-383: the forward pass over the whole prompt, the first token, and
\* the lookup of the end-of-sequence id (unwrap panics when there is none).
Prefill(l) ==
    /\ pc = "Prefilling"
    /\ fwd_calls' = Append(fwd_calls, [input |-> prompt_tokens, pos |-> 0])
    /\ fwd_logits' = l
    /\ logits' = OnesLike(l)
    /\ next_token' = FixedToken
    /\ all_tokens' = Append(all_tokens, next_token')
    /\ emitted' = Append(emitted, next_token')
    /\ index' = 0
    /\ pc' = IF eos_id = NoEos THEN OnError(pc) ELSE "Decoding"
    /\ err' = IF eos_id = NoEos THEN "Panic" ELSE err
    /\ UNCHANGED <<config, model, emitter, prompt_str, turn, pre_prompt_tokens, input_tokens, prompt_tokens,
                   logits_processor, penalty_ctx>>

\* Lines 371-375: Tensor::new, forward, squeeze or ones_like returns an error.
PrefillFail ==
    /\ pc = "Prefilling"
    /\ pc' = OnError(pc)
    /\ err' = "ModelEvaluation"
    /\ UNCHANGED <<config, model, emitter, prompt_str, turn, pre_prompt_tokens, input_tokens, prompt_tokens,
                   all_tokens, next_token, index, logits_processor, fwd_calls,
                   fwd_logits, logits, penalty_ctx, emitted>>

\* Lines 386-409: one iteration of the decode loop. The token of the iteration
\* is a new local that shadows next_token; the outer next_token is untouched.
DecodeStep(l) ==
    /\ pc = "Decoding"
    /\ index < ToSample(sample_len)
    /\ fwd_calls' = Append(fwd_calls, [input |-> <<next_token>>,
                                       pos |-> DecodePos(Len(prompt_tokens), index)])
    /\ fwd_logits' = l
    /\ IF repeat_penalty = 1
       THEN /\ logits' = l
            /\ penalty_ctx' = <<>>
       ELSE /\ penalty_ctx' = PenaltyWindow(all_tokens, repeat_last_n)
            /\ logits' = ApplyRepeatPenalty(l, penalty_ctx')
    /\ LET inner_next_token == DecodeToken
       IN  /\ all_tokens' = PushGenerated(all_tokens, inner_next_token, eos_id)
           /\ emitted' = PushGenerated(emitted, inner_next_token, eos_id)
           /\ IF inner_next_token = eos_id
              THEN /\ pc' = "TurnComplete"
                   /\ index' = index
              ELSE /\ pc' = "Decoding"
                   /\ index' = index + 1
    /\ UNCHANGED <<config, model, emitter, prompt_str, err, turn, pre_prompt_tokens, input_tokens, prompt_tokens,
                   next_token, logits_processor>>

\* Lines 387-399: Tensor::new, forward, squeeze or apply_repeat_penalty fails.
DecodeFail ==
    /\ pc = "Decoding"
    /\ index < ToSample(sample_len)
    /\ pc' = OnError(pc)
    /\ err' = "ModelEvaluation"
    /\ UNCHANGED <<config, model, emitter, prompt_str, turn, pre_prompt_tokens, input_tokens, prompt_tokens,
                   all_tokens, next_token, index, logits_processor, fwd_calls,
                   fwd_logits, logits, penalty_ctx, emitted>>

\* Line 386: the range 0..to_sample is exhausted.
DecodeDone ==
    /\ pc = "Decoding"
    /\ index >= ToSample(sample_len)
    /\ pc' = "TurnComplete"
    /\ UNCHANGED <<config, model, emitter, prompt_str, err, turn, pre_prompt_tokens, input_tokens, prompt_tokens,
                   all_tokens, next_token, index, logits_processor, fwd_calls,
                   fwd_logits, logits, penalty_ctx, emitted>>

\* Lines 410-429: the statistics and the `match prompt` that ends the turn.
TurnEnd ==
    /\ pc = "TurnComplete"
    /\ pre_prompt_tokens' = NextCarryOver(mode, pre_prompt_tokens, prompt_tokens,
                                          all_tokens)
    /\ pc' = AfterTurn(mode)
    /\ UNCHANGED <<config, model, emitter, prompt_str, err, turn, input_tokens, prompt_tokens, all_tokens,
                   next_token, index, logits_processor, fwd_calls, fwd_logits,
                   logits, penalty_ctx, emitted>>

Next ==
    \/ \E ids \in PromptIds, line \in StdinLines \cup {ArgPrompt} :
            ReadPrompt(ids, line)
    \/ PromptFail
    \/ \E l \in LogitsSet : Prefill(l)
    \/ PrefillFail
    \/ \E l \in LogitsSet : DecodeStep(l)
    \/ DecodeFail
    \/ DecodeDone
    \/ TurnEnd

Spec == Init /\ [][Next]_vars

\* ------------------------------------------------- the program from its start
loop_locals == <<turn, pre_prompt_tokens, input_tokens, prompt_tokens, all_tokens,
                 next_token, index, logits_processor, fwd_calls, fwd_logits,
                 logits, penalty_ctx, emitted, prompt_str>>

\* Lines 262-315: resolve the model path, open the file, read the container in
\* the format its extension selects, build the model.
LoadModel ==
    /\ pc = "Loading"
    /\ model' = BuildModel(which, gqa, ext)
    /\ pc' = "ModelBuilt"
    /\ UNCHANGED <<config, emitter, err, loop_locals>>

\* Lines 262-312: args.model, File::open, Content::read, from_gguf or from_ggml
\* returns an error.
LoadModelFail ==
    /\ pc = "Loading"
    /\ pc' = OnError(pc)
    /\ err' = "Format"
    /\ UNCHANGED <<config, emitter, model, loop_locals>>

\* Lines 317-325: the tokenizer is loaded and the prompt mode is chosen.
LoadTokenizer ==
    /\ pc = "ModelBuilt"
    /\ pc' = "AwaitingPrompt"
    /\ UNCHANGED <<config, emitter, model, err, loop_locals>>

\* Line 317: args.tokenizer returns an error.
LoadTokenizerFail ==
    /\ pc = "ModelBuilt"
    /\ pc' = OnError(pc)
    /\ err' = "Tokenizer"
    /\ UNCHANGED <<config, emitter, model, loop_locals>>

\* main at its start, for every model selection and prompt mode, with one
\* sampling configuration
ModelInit ==
    /\ mode \in {"One", "Interactive", "Chat"}
    /\ sample_len = 2
    /\ temperature = "Some"
    /\ repeat_penalty = Penalty
    /\ repeat_last_n = MaxRepeatLastN
    /\ eos_id \in {2, NoEos}
    /\ which \in Which
    /\ gqa \in GqaArgs
    /\ ext \in Extensions
    /\ model = NoModel
    /\ pc = "Loading"
    /\ LoopInit
    /\ EmitterIdle

ModelNext ==
    \/ LoadModel
    \/ LoadModelFail
    \/ LoadTokenizer
    \/ LoadTokenizerFail
    \/ Next

ModelSpec == ModelInit /\ [][ModelNext]_vars

\* ------------------------------------------------------- print_token alone
\* Lines 193-216: one call of print_token.
PrintTokenCall ==
    /\ pc = "PrintToken"
    /\ stdout' = PrintToken(token_text)
    /\ pc' = "Printed"
    /\ UNCHANGED <<config, token_text, model, err, loop_locals>>

\* a call of print_token for any token text
EmitInit ==
    /\ mode = "One"
    /\ sample_len = 1
    /\ temperature = "Some"
    /\ repeat_penalty = Penalty
    /\ repeat_last_n = MaxRepeatLastN
    /\ eos_id = 2
    /\ which = "7b"
    /\ gqa = <<>>
    /\ ext = "bin"
    /\ model = BuildModel(which, gqa, ext)
    /\ pc = "PrintToken"
    /\ LoopInit
    /\ token_text \in TokenTexts
    /\ stdout = <<>>

EmitNext == PrintTokenCall

EmitSpec == EmitInit /\ [][EmitNext]_vars

\* ------------------------------------------------------------- properties
IsSuffix(s, t) == Len(s) <= Len(t) /\ s = SubSeq(t, Len(t) - Len(s) + 1, Len(t))

IsPrefix(s, t) == Len(s) <= Len(t) /\ s = SubSeq(t, 1, Len(s))

\* max(sample_len - 1, 0)
PlannedNewTokens == IF sample_len >= 1 THEN sample_len - 1 ELSE 0

\* the concatenated prompt of the turn does not fit the context window
Overflow == Len(input_tokens) + PlannedNewTokens > MAX_SEQ_LEN - Margin

\* by how many tokens it does not fit
Excess == Len(input_tokens) + PlannedNewTokens - (MAX_SEQ_LEN - Margin)

InTurn == pc \in {"Prefilling", "Decoding", "TurnComplete"}

\* C1: in every turn, after the truncation and before the prefill forward pass,
\* the accepted prompt plus the tokens still to sample fit the context window:
\* len(prompt_tokens) + to_sample <= MAX_SEQ_LEN - 10.
C1_FitsContext ==
    pc = "Prefilling" =>
        Len(prompt_tokens) + PlannedNewTokens <= MAX_SEQ_LEN - Margin

\* C2: when the concatenated prompt overflows the window by K >= 1 tokens, the
\* accepted prompt is the input without its K oldest tokens, of length len - K.
C2_DropsExactlyK ==
    (pc = "Prefilling" /\ Overflow) =>
        /\ Len(prompt_tokens) = Len(input_tokens) - Excess
        /\ prompt_tokens = SubSeq(input_tokens, Excess + 1, Len(input_tokens))

\* C3: the accepted prompt of a turn is a contiguous suffix, in the original
\* order, of carry_over ++ new_prompt; it is the whole sequence when there is no
\* overflow, and after a truncation it still ends with the most recent token.
C3_AcceptedIsSuffix ==
    InTurn =>
        /\ IsPrefix(pre_prompt_tokens, input_tokens)
        /\ \E ids \in PromptIds : IsSuffix(ids, input_tokens)
        /\ IsSuffix(prompt_tokens, input_tokens)
        /\ ~Overflow => prompt_tokens = input_tokens
        /\ (Overflow /\ input_tokens # <<>>) =>
                /\ prompt_tokens # <<>>
                /\ Last(prompt_tokens) = Last(input_tokens)

\* a truncation that kept more than one token of a carry-over plus a new prompt
C3_Witness ==
    /\ pc = "Prefilling"
    /\ Overflow
    /\ pre_prompt_tokens # <<>>
    /\ Len(prompt_tokens) >= 2
    /\ Len(prompt_tokens) < Len(input_tokens)

\* C4: in Chat mode the carry-over held when the next turn starts is the
\* accepted prompt of the turn just ended (the sequence its prefill was fed)
\* followed by the tokens the turn generated; after a first turn without
\* truncation this is prompt_tokens_1 ++ T1.
C4_ChatCarryOver ==
    (mode = "Chat" /\ pc = "AwaitingPrompt" /\ turn >= 1) =>
        /\ fwd_calls[1].input = prompt_tokens
        /\ pre_prompt_tokens = prompt_tokens \o all_tokens
        /\ (turn = 1 /\ ~Overflow) =>
                pre_prompt_tokens = input_tokens \o all_tokens

\* the second Chat turn is about to start after an untruncated first turn
C4_Witness ==
    /\ mode = "Chat"
    /\ pc = "AwaitingPrompt"
    /\ turn = 1
    /\ ~Overflow
    /\ Len(prompt_tokens) >= 2
    /\ Len(all_tokens) = 2
    /\ Len(pre_prompt_tokens) = 4

\* C5: the carry-over is empty in every state of a One or Interactive session,
\* so the prompt of such a turn is that turn's input alone; in Chat mode it
\* changes only in the step that ends a turn.
C5_CarryOverFrame ==
    /\ [](mode # "Chat" => pre_prompt_tokens = <<>> /\ input_tokens \in PromptIds)
    /\ [][pre_prompt_tokens' # pre_prompt_tokens =>
            mode = "Chat" /\ pc = "TurnComplete" /\ pc' = "AwaitingPrompt"]_vars

\* the second turn of an Interactive session, after a first turn that generated
C5_Witness ==
    /\ mode = "Interactive"
    /\ turn = 2
    /\ pc = "TurnComplete"
    /\ Len(all_tokens) = 2
    /\ input_tokens # <<>>

\* C6: without errors the session halts exactly in mode One, after one turn;
\* in Interactive and Chat modes the end of a turn leads back to the prompt.
C6_HaltsOnlySingleShot ==
    /\ [](pc = "Halted" =>
            mode = "One" /\ turn = 1 /\ Len(fwd_calls) >= 1 /\ all_tokens # <<>>)
    /\ [](mode = "One" /\ turn >= 1 => pc # "AwaitingPrompt")
    /\ []((mode = "One" /\ pc \notin {"Halted", "Error"}) => ENABLED Next)
    /\ [][pc = "TurnComplete" =>
            pc' = IF mode = "One" THEN "Halted" ELSE "AwaitingPrompt"]_vars

\* a One session that halted after its turn
C6_Witness ==
    /\ pc = "Halted"
    /\ mode = "One"
    /\ Len(all_tokens) = 2

\* C7: once a generated token of the turn, from the prefill or from a decode
\* step, is the end-of-sequence id, the turn runs no further forward pass and
\* generates and emits no further token.
C7_NothingAfterEos ==
    \A i \in 1..Len(all_tokens) :
        all_tokens[i] = eos_id =>
            /\ i = Len(all_tokens)
            /\ Len(fwd_calls) <= i
            /\ Len(emitted) <= i

\* C8: the prefill generates exactly one token and the decode loop runs at most
\* max(sample_len - 1, 0) times, so a turn with sample_len >= 1 generates at
\* most sample_len tokens, and with sample_len = 1 exactly one, with no decode
\* forward pass.
C8_TokenCount ==
    /\ pc = "Prefilling" => all_tokens = <<>> /\ fwd_calls = <<>>
    /\ pc \in {"Decoding", "TurnComplete"} =>
        /\ Len(all_tokens) >= 1
        /\ Len(all_tokens) = Len(fwd_calls)
        /\ Len(fwd_calls) - 1 <= PlannedNewTokens
        /\ sample_len >= 1 => Len(all_tokens) <= sample_len
        /\ (sample_len = 1 /\ pc = "TurnComplete") =>
                Len(all_tokens) = 1 /\ Len(fwd_calls) = 1

\* a turn with sample_len = 1 that ended after its prefill token
C8_Witness ==
    /\ pc = "TurnComplete"
    /\ sample_len = 1
    /\ Len(all_tokens) = 1
    /\ fwd_calls = <<[input |-> prompt_tokens, pos |-> 0]>>

\* C9: with the temperature absent every generated token is the arg-max of the
\* logits of its step: of the prefill's forward pass for the first token, of
\* the decode step's penalty-adjusted logits for every later one.
C9_GreedyIsArgMax ==
    (temperature = "None" /\ pc \in {"Decoding", "TurnComplete"}) =>
        Last(all_tokens) =
            ArgMax(IF Len(fwd_calls) = 1 THEN fwd_logits ELSE logits)

\* C10: the sampler is built and seeded once per session: the one every turn
\* uses is the one the first turn built, never a new one.
C10_SeededOnce ==
    InTurn => logits_processor.born = 1

Min(a, b) == IF a <= b THEN a ELSE b

\* the tokens the turn had generated before its latest decode step
GeneratedBefore == SubSeq(all_tokens, 1, Len(all_tokens) - 1)

\* the turn has run at least one decode step
Decoded == pc \in {"Decoding", "TurnComplete"} /\ Len(fwd_calls) >= 2

C12_FeedsLastGenerated ==
    \A k \in 2..Len(fwd_calls) :
        /\ Len(all_tokens) >= k - 1
        /\ fwd_calls[k].input = <<all_tokens[k - 1]>>

\* a turn whose second decode iteration has run
C12_Witness ==
    /\ pc = "TurnComplete"
    /\ Len(fwd_calls) = 3
    /\ Len(all_tokens) = 3
    /\ fwd_calls[3].input = <<all_tokens[2]>>

\* the decode loop was left by its break
Broke ==
    /\ index < PlannedNewTokens
    /\ \/ pc \in {"TurnComplete", "Halted"}
       \/ pc = "AwaitingPrompt" /\ turn >= 1

\* C16: the end-of-sequence token of a decode step is appended to the generated
\* tokens and emitted before the loop is left, so the generated tokens at the
\* end of the turn, and the Chat carry-over built from them, end with it.
C16_EosIsKept ==
    Broke =>
        /\ Len(all_tokens) = index + 2
        /\ Last(all_tokens) = eos_id
        /\ emitted = all_tokens
        /\ (mode = "Chat" /\ pc = "AwaitingPrompt") =>
                /\ IsSuffix(all_tokens, pre_prompt_tokens)
                /\ Last(pre_prompt_tokens) = eos_id

\* a Chat turn left by the break, with the carry-over already built
C16_Witness ==
    /\ Broke
    /\ mode = "Chat"
    /\ pc = "AwaitingPrompt"
    /\ sample_len = 3
    /\ Len(prompt_tokens) >= 1
    /\ Last(pre_prompt_tokens) = eos_id

\* C17: the forward calls of a turn use contiguous positions: the prefill gets
\* the whole accepted prompt at position 0, decode iteration i is called at
\* len(accepted prompt) + i, the number of tokens already fed in the turn, and
\* every turn starts again from 0.
C17_ContiguousPositions ==
    \A k \in 1..Len(fwd_calls) :
        IF k = 1
        THEN fwd_calls[k] = [input |-> prompt_tokens, pos |-> 0]
        ELSE /\ fwd_calls[k].pos = Len(prompt_tokens) + (k - 2)
             /\ fwd_calls[k].pos =
                    fwd_calls[k - 1].pos + Len(fwd_calls[k - 1].input)

\* the second decode iteration of a second Chat turn
C17_Witness ==
    /\ mode = "Chat"
    /\ turn = 2
    /\ Len(prompt_tokens) >= 2
    /\ Len(fwd_calls) = 3
    /\ fwd_calls[3].pos = Len(prompt_tokens) + 1

\* C19: every forward call stays inside the model's context: the prefill input
\* has at most MAX_SEQ_LEN tokens and every decode step has
\* position + 1 <= MAX_SEQ_LEN.
C19_ForwardInContext ==
    \A k \in 1..Len(fwd_calls) :
        IF k = 1
        THEN Len(fwd_calls[k].input) <= MAX_SEQ_LEN
        ELSE fwd_calls[k].pos + 1 <= MAX_SEQ_LEN

\* the families whose default grouping factor is 8
GroupedQueryFamilies ==
    {"70b", "70b-chat", "7b-mistral", "7b-mistral-instruct", "7b-zephyr"}

ModelIsBuilt == pc \notin {"Loading"} /\ model # NoModel

\* C13: for the legacy container format the grouping factor given to the model
\* construction is the explicit override when there is one, otherwise 8 for 70b,
\* 70b-chat, 7b-mistral, 7b-mistral-instruct and 7b-zephyr and 1 for every other
\* family; for the gguf format the override has no effect.
C13_GroupingFactor ==
    ModelIsBuilt =>
        /\ model.format = (IF ext = "gguf" THEN "gguf" ELSE "ggml")
        /\ model.format = "ggml" =>
            model.gqa = IF gqa # <<>> THEN gqa
                        ELSE IF which \in GroupedQueryFamilies THEN <<8>>
                        ELSE <<1>>
        /\ model.format = "gguf" => model.gqa = <<>>

\* a legacy-format 7b-zephyr model built without an override
C13_Witness ==
    /\ pc = "ModelBuilt"
    /\ which = "7b-zephyr"
    /\ gqa = <<>>
    /\ ext = "bin"
    /\ model = [format |-> "ggml", gqa |-> <<8>>]

\* the families Which::is_mistral names
MistralFamilies == {"7b-mistral", "7b-mistral-instruct", "7b-zephyr"}

\* the prompt texts as entered: the --prompt text, or a line without its end
Entered == IF mode = "One" THEN {ArgPrompt} ELSE {Chomp(l) : l \in StdinLines}

IsWrapped(p) ==
    /\ Len(p) >= Len(InstOpen) + Len(InstClose)
    /\ SubSeq(p, 1, Len(InstOpen)) = InstOpen
    /\ SubSeq(p, Len(p) - Len(InstClose) + 1, Len(p)) = InstClose

\* C18 as stated: the prompt text is wrapped in [INST] ... [/INST] exactly when
\* the mode is Chat and the family is one that expects instruction turns; One
\* and Interactive prompts are tokenized as entered.
C18_WrappedOnlyInChat ==
    InTurn =>
        /\ IsWrapped(prompt_str) <=> (mode = "Chat" /\ which \in MistralFamilies)
        /\ mode # "Chat" => prompt_str \in Entered

\* C18 amended: the prompt text is wrapped exactly when the mode is Interactive
\* or Chat and the family is one of 7b-mistral, 7b-mistral-instruct, 7b-zephyr;
\* every other prompt is tokenized as entered.
C18_WrappedInInteractiveAndChat ==
    InTurn =>
        IF mode \in {"Interactive", "Chat"} /\ which \in MistralFamilies
        THEN prompt_str \in {InstOpen \o e \o InstClose : e \in Entered}
        ELSE prompt_str \in Entered /\ ~IsWrapped(prompt_str)

\* an Interactive turn of a Mistral family, whose prompt is wrapped
C18_Witness ==
    /\ pc = "Prefilling"
    /\ mode = "Interactive"
    /\ which = "7b-mistral"
    /\ IsWrapped(prompt_str)

\* C14: an error ends main with no retry: a container failure comes before any
\* forward pass, and after a tokenizer or forward failure nothing runs any
\* more: no forward pass, no later turn, no change of the carry-over.
C14_ErrorsEndMain ==
    /\ [](err # "none" <=> pc = "Error")
    /\ [](err = "Format" => fwd_calls = <<>> /\ turn = 0 /\ model = NoModel)
    /\ [][err = "none"]_vars
    /\ [][err' \in {"Format", "Tokenizer", "ModelEvaluation"} =>
            /\ pre_prompt_tokens' = pre_prompt_tokens
            /\ fwd_calls' = fwd_calls
            /\ all_tokens' = all_tokens]_vars

\* a forward failure in the decode loop of the second Chat turn
C14_Witness ==
    /\ err = "ModelEvaluation"
    /\ pc = "Error"
    /\ mode = "Chat"
    /\ turn = 2
    /\ Len(fwd_calls) = 1
    /\ pre_prompt_tokens # <<>>

\* the hex digits of d, as a number (d holds hex digits only)
RECURSIVE HexNumber(_)
HexNumber(d) ==
    IF d = <<>> THEN 0
    ELSE HexNumber(SubSeq(d, 1, Len(d) - 1)) * 16 + HexDigit(d[Len(d)])

AllHex(d) == d # <<>> /\ \A i \in 1..Len(d) : HexDigit(d[i]) # -1

Framed(t) ==
    /\ Len(t) >= 4
    /\ SubSeq(t, 1, 3) = <<60, 48, 120>>
    /\ t[Len(t)] = 62

Inner(t) == SubSeq(t, 4, Len(t) - 1)

\* "<0x" hex digits ">" with a value in 0..255
IsByteEscape(t) == Framed(t) /\ AllHex(Inner(t)) /\ HexNumber(Inner(t)) <= 255

\* the same, with an optional '+' before the digits
IsSignedByteEscape(t) ==
    /\ Framed(t)
    /\ Inner(t) # <<>>
    /\ Inner(t)[1] = 43
    /\ AllHex(Tail(Inner(t)))
    /\ HexNumber(Tail(Inner(t))) <= 255

WithSpaces(t) == [i \in 1..Len(t) |-> IF t[i] = 9601 THEN 32 ELSE t[i]]

Printed == pc = "Printed" /\ token_text # <<>>

\* C15 as stated: for a token text <0xHH> of hex value v in 0..255 the emitter
\* writes the one character of code v when v <= 0x7F and nothing when v > 0x7F;
\* for any other token it writes the text with every marker replaced by a space.
C15_ByteEscape ==
    Printed =>
        LET t == token_text[1]
        IN  IF IsByteEscape(t)
            THEN stdout = IF HexNumber(Inner(t)) <= 127
                          THEN <<HexNumber(Inner(t))>> ELSE <<>>
            ELSE stdout = WithSpaces(t)

\* C15 amended: the same, where a byte escape is "<0x", an optional '+', hex
\* digits of value v in 0..255, and ">".
C15_ByteEscapeWithSign ==
    Printed =>
        LET t == token_text[1]
            v == IF IsByteEscape(t) THEN HexNumber(Inner(t))
                 ELSE HexNumber(Tail(Inner(t)))
        IN  IF IsByteEscape(t) \/ IsSignedByteEscape(t)
            THEN stdout = IF v <= 127 THEN <<v>> ELSE <<>>
            ELSE stdout = WithSpaces(t)

\* print_token was called for <0x41> and wrote 'A'
C15_Witness ==
    /\ pc = "Printed"
    /\ token_text = << <<60, 48, 120, 52, 49, 62>> >>
    /\ stdout = <<65>>

====
